---- MODULE Spec2Model ----
(***************************************************************************)
(* Model of scripts/infer/hf_infer.py: the prompt formatter                *)
(* (preprocess_qwen), one generation round (infer_model) and the           *)
(* interactive loop of __main__.                                           *)
(*                                                                         *)
(* A Python str is a sequence of one-character strings.  The tokenizer,    *)
(* the conversation templates and the model's generate call are external   *)
(* to the script: the tokenizer is a character-level encoder into          *)
(* non-negative ids, the templates are a three-entry table, and the text   *)
(* the model decodes to is a nondeterministic choice.                      *)
(***************************************************************************)
EXTENDS Integers, Sequences, FiniteSets, TLC

VARIABLES
    pc,                    \* position of __main__ in its loop
    conversation_history,  \* global conversation_history (line 20)
    image_files,           \* args.image_files
    user_input,            \* user_input of __main__
    conv_mode,             \* args.conv_mode
    has_image,             \* has_image passed to preprocess_qwen by the running call
    input_ids,             \* input_ids of the running infer_model call
    images,                \* image files loaded for the running infer_model call
    outputs,               \* outputs (line 107) of the most recent generation
    printed                \* the most recent print() of the script

vars == <<pc, conversation_history, image_files, user_input, conv_mode,
          has_image, input_ids, images, outputs, printed>>

----------------------------------------------------------------------------
(* Bounds *)

\* generation rounds per history in Spec
MaxRounds == 2
\* pieces concatenated into a decoded text in SpecDecode
MaxPieces == 3

----------------------------------------------------------------------------
(* String literals of the script *)

NL == <<"\n">>
COMMA == <<",">>
EXIT_WORD == <<"e","x","i","t">>
RESET_WORD == <<"r","e","s","e","t">>
IMAGE_MARK == <<"<","i","m","a","g","e",">">>
ROLE_ECHO == <<"a","s","s","i","s","t","a","n","t","\n">>
SYSTEM_WORD == <<"s","y","s","t","e","m">>
system_message ==
    <<"Y","o","u"," ","a","r","e"," ","a"," ","h","e","l","p","f","u","l"," ",
      "a","s","s","i","s","t","a","n","t",".">>
ROLE_USER == <<"<","|","i","m","_","s","t","a","r","t","|",">","u","s","e","r">>
ROLE_ASSISTANT ==
    <<"<","|","i","m","_","s","t","a","r","t","|",">",
      "a","s","s","i","s","t","a","n","t">>

roles(from) == IF from = "human" THEN ROLE_USER ELSE ROLE_ASSISTANT

IMAGE_TOKEN_INDEX == -200
IM_START == 151644
IM_END == 151645

----------------------------------------------------------------------------
(* Python str operations *)

Whitespace == {" ", "\n"}

LowerChar(c) ==
    CASE c = "E" -> "e" [] c = "X" -> "x" [] c = "I" -> "i" [] c = "T" -> "t"
      [] c = "R" -> "r" [] c = "S" -> "s" [] c = "H" -> "h" [] OTHER -> c

\* str.lower()
lower(s) == [i \in 1..Len(s) |-> LowerChar(s[i])]

\* str.find(sub) + 1: the first position of sub in s, 0 when absent
find(s, sub) ==
    LET I == {i \in 1..(Len(s) - Len(sub) + 1) : SubSeq(s, i, i + Len(sub) - 1) = sub}
    IN  IF I = {} THEN 0 ELSE CHOOSE i \in I : \A j \in I : i <= j

\* sub in s
contains(s, sub) == find(s, sub) # 0

\* str.split(sep), sep non-empty
RECURSIVE split(_, _)
split(s, sep) ==
    LET i == find(s, sep)
    IN  IF i = 0 THEN <<s>>
        ELSE <<SubSeq(s, 1, i - 1)>> \o split(SubSeq(s, i + Len(sep), Len(s)), sep)

\* str.replace(old, new), old non-empty
RECURSIVE replace(_, _, _)
replace(s, old, new) ==
    LET i == find(s, old)
    IN  IF i = 0 THEN s
        ELSE SubSeq(s, 1, i - 1) \o new
             \o replace(SubSeq(s, i + Len(old), Len(s)), old, new)

\* str.strip()
strip(s) ==
    LET K == {i \in 1..Len(s) : s[i] \notin Whitespace}
    IN  IF K = {} THEN <<>>
        ELSE SubSeq(s, CHOOSE i \in K : \A j \in K : i <= j,
                       CHOOSE i \in K : \A j \in K : j <= i)

\* bool(x) of a str-or-None value
None == [none |-> TRUE, str |-> <<>>]
Str(s) == [none |-> FALSE, str |-> s]
bool(x) == ~x.none /\ x.str # <<>>

----------------------------------------------------------------------------
(* The tokenizer: tokenizer(text).input_ids *)

Alphabet ==
    <<"a","b","c","d","e","f","g","h","i","j","k","l","m","n","o","p","q","r",
      "s","t","u","v","w","x","y","z","E","X","I","T","R","S","H","Y",
      "<",">","|","_","/",".",","," ","\n","#">>

CharId(c) == CHOOSE i \in 1..Len(Alphabet) : Alphabet[i] = c

tokenizer(text) == [i \in 1..Len(text) |-> CharId(text[i])]

----------------------------------------------------------------------------
(* preprocess_qwen *)

\* the system preamble: start marker, "system", the system message, end marker, newline
system ==
    <<IM_START>> \o tokenizer(SYSTEM_WORD) \o tokenizer(system_message)
    \o <<IM_END>> \o tokenizer(NL)

\* the inner loop with the bound of the guard off by one
RECURSIVE EncodeTextsSlotAfterLast(_, _)
EncodeTextsSlotAfterLast(texts, i) ==
    IF i > Len(texts) THEN <<>>
    ELSE tokenizer(texts[i])
         \o (IF i <= Len(texts) THEN <<IMAGE_TOKEN_INDEX>> \o tokenizer(NL) ELSE <<>>)
         \o EncodeTextsSlotAfterLast(texts, i + 1)

\* the inner loop over the pieces of a turn split at the image marker,
\* from piece i (1-based) on
RECURSIVE EncodeTexts(_, _)
EncodeTexts(texts, i) ==
    IF i > Len(texts) THEN <<>>
    ELSE tokenizer(texts[i])
         \o (IF i < Len(texts) THEN <<IMAGE_TOKEN_INDEX>> \o tokenizer(NL) ELSE <<>>)
         \o EncodeTexts(texts, i + 1)

\* the loop body with the has_image test dropped
EncodeTurnIgnoringFlag(sentence, hasImage) ==
    LET role == roles(sentence.from)
    IN  IF contains(sentence.value, IMAGE_MARK)
        THEN tokenizer(role) \o tokenizer(NL)
             \o EncodeTexts(split(sentence.value, IMAGE_MARK), 1)
             \o <<IM_END>> \o tokenizer(NL)
        ELSE tokenizer(role) \o tokenizer(NL) \o tokenizer(sentence.value)
             \o <<IM_END>> \o tokenizer(NL)

\* the body of the loop over sources: the _input_id of one sentence
EncodeTurn(sentence, hasImage) ==
    LET role == roles(sentence.from)
    IN  IF hasImage /\ contains(sentence.value, IMAGE_MARK)
        THEN tokenizer(role) \o tokenizer(NL)
             \o EncodeTexts(split(sentence.value, IMAGE_MARK), 1)
             \o <<IM_END>> \o tokenizer(NL)
        ELSE tokenizer(role) \o tokenizer(NL) \o tokenizer(sentence.value)
             \o <<IM_END>> \o tokenizer(NL)

RECURSIVE EncodeSources(_, _, _)
EncodeSources(sources, hasImage, i) ==
    IF i > Len(sources) THEN <<>>
    ELSE EncodeTurn(sources[i], hasImage) \o EncodeSources(sources, hasImage, i + 1)

\* the token sequence preprocess_qwen returns (its single row)
preprocess_qwen(sources, hasImage) == system \o EncodeSources(sources, hasImage, 1)

----------------------------------------------------------------------------
(* infer_model: stop string and trimming of the decoded text *)

SEP_CHATML == <<"<","|","i","m","_","e","n","d","|",">">>
SEP2_TWO == <<"<","/","s",">">>

\* conv_templates[mode]: separator style, sep and sep2
conv_templates(mode) ==
    CASE mode = "qwen_2" -> [sep_style |-> "CHATML", sep |-> SEP_CHATML, sep2 |-> None.str]
      [] mode = "v1"     -> [sep_style |-> "TWO", sep |-> <<" ">>, sep2 |-> SEP2_TWO]
      [] mode = "plain"  -> [sep_style |-> "PLAIN", sep |-> NL, sep2 |-> None.str]

ConvModes == {"qwen_2", "v1", "plain"}

stop_str(mode) ==
    LET conv == conv_templates(mode)
    IN  IF conv.sep_style # "TWO" THEN conv.sep ELSE conv.sep2

\* the trimming with the role echo removed after the cut at the stop string
TrimCutBeforeEcho(outs, stop) ==
    strip(replace(split(outs, stop)[1], ROLE_ECHO, <<>>))

\* response from outputs: role echo removed, cut at the stop string, stripped
TrimResponse(outs, stop) ==
    strip(split(replace(outs, ROLE_ECHO, <<>>), stop)[1])

\* image_files.split(",") when image files are given, no image otherwise
LoadImages(files) == IF bool(files) THEN split(files.str, COMMA) ELSE <<>>

----------------------------------------------------------------------------
(* Inputs *)

\* lines typed at the "User: " prompt
UserLines ==
    { EXIT_WORD, <<"E","x","i","t">>, RESET_WORD, <<"R","E","S","E","T">>,
      <<>>, <<"h","i">>, <<"e","x","i","t"," ">>,
      IMAGE_MARK \o <<"h","i">>,
      <<"a">> \o IMAGE_MARK \o <<"b">> \o IMAGE_MARK }

\* lines typed at the image-path prompt
ImageLines == { <<>>, <<"a">>, <<"a",",","b">> }

\* texts the model decodes to in Spec
ModelOutputs ==
    { <<"o","k">>,
      <<" ">> \o ROLE_ECHO \o <<"h","i">> \o SEP_CHATML \o <<"x">>,
      IMAGE_MARK \o <<"\n">> \o <<"a"," ","b">> \o SEP2_TWO }

\* pieces of the decoded texts of SpecDecode
Pieces ==
    { <<"a">>, <<" ">>, NL, ROLE_ECHO, SEP_CHATML, SEP2_TWO,
      <<"<","|","i","m","_">>, <<"e","n","d","|",">">>, <<"<","/">>, <<"s",">">> }

RECURSIVE Concats(_)
Concats(n) ==
    IF n = 0 THEN {<<>>}
    ELSE Concats(n - 1) \cup {p \o t : p \in Pieces, t \in Concats(n - 1)}

\* texts the model decodes to in SpecDecode
DecodedTexts == Concats(MaxPieces)

----------------------------------------------------------------------------
(* The loop of __main__ *)

Banner == [kind |-> "banner", text |-> <<>>]

Init ==
    /\ pc = "LoopTop"
    /\ conversation_history = <<>>
    /\ image_files = None
    /\ user_input = <<>>
    /\ conv_mode \in ConvModes
    /\ has_image = FALSE
    /\ input_ids = <<>>
    /\ images = <<>>
    /\ outputs = <<>>
    /\ printed = Banner

\* the test at the top of the loop, inverted
LoopTopInverted ==
    /\ pc = "LoopTop"
    /\ pc' = IF conversation_history # <<>> THEN "AwaitingImages" ELSE "AwaitingInput"
    /\ UNCHANGED <<conversation_history, image_files, user_input, conv_mode,
                   has_image, input_ids, images, outputs, printed>>

\* while True: if not conversation_history
LoopTop ==
    /\ pc = "LoopTop"
    /\ pc' = IF conversation_history = <<>> THEN "AwaitingImages" ELSE "AwaitingInput"
    /\ UNCHANGED <<conversation_history, image_files, user_input, conv_mode,
                   has_image, input_ids, images, outputs, printed>>

\* args.image_files = input("Enter image file paths (comma-separated): ")
PromptImages(lines) ==
    /\ pc = "AwaitingImages"
    /\ \E line \in lines : image_files' = Str(line)
    /\ pc' = "AwaitingInput"
    /\ UNCHANGED <<conversation_history, user_input, conv_mode,
                   has_image, input_ids, images, outputs, printed>>

IsExit(line) == lower(line) = EXIT_WORD
IsReset(line) == ~IsExit(line) /\ lower(line) = RESET_WORD

ReservedLines == {line \in UserLines : IsExit(line) \/ IsReset(line)}

\* user_input = input("User: "), the line being one of lines
PromptUser(lines) ==
    /\ pc = "AwaitingInput"
    /\ \E line \in lines : user_input' = line
    /\ pc' = "Dispatch"
    /\ UNCHANGED <<conversation_history, image_files, conv_mode,
                   has_image, input_ids, images, outputs, printed>>

\* the exit branch without its break
ExitNoBreak ==
    /\ pc = "Dispatch"
    /\ IsExit(user_input)
    /\ printed' = [kind |-> "exit", text |-> <<>>]
    /\ pc' = "LoopTop"
    /\ UNCHANGED <<conversation_history, image_files, user_input, conv_mode,
                   has_image, input_ids, images, outputs>>

\* if user_input.lower() == "exit": print, break
Exit ==
    /\ pc = "Dispatch"
    /\ IsExit(user_input)
    /\ printed' = [kind |-> "exit", text |-> <<>>]
    /\ pc' = "Done"
    /\ UNCHANGED <<conversation_history, image_files, user_input, conv_mode,
                   has_image, input_ids, images, outputs>>

\* the reset branch without the assignment to conversation_history
ResetKeepsHistory ==
    /\ pc = "Dispatch"
    /\ IsReset(user_input)
    /\ image_files' = None
    /\ printed' = [kind |-> "reset", text |-> <<>>]
    /\ pc' = "LoopTop"
    /\ UNCHANGED <<conversation_history, user_input, conv_mode,
                   has_image, input_ids, images, outputs>>

\* the reset branch dropping only the last round of the history
ResetDropsLastRound ==
    /\ pc = "Dispatch"
    /\ IsReset(user_input)
    /\ conversation_history' =
          SubSeq(conversation_history, 1, Len(conversation_history) - 2)
    /\ image_files' = None
    /\ printed' = [kind |-> "reset", text |-> <<>>]
    /\ pc' = "LoopTop"
    /\ UNCHANGED <<user_input, conv_mode, has_image, input_ids, images, outputs>>

\* elif user_input.lower() == "reset": clear the history and the image list, print
Reset ==
    /\ pc = "Dispatch"
    /\ IsReset(user_input)
    /\ conversation_history' = <<>>
    /\ image_files' = None
    /\ printed' = [kind |-> "reset", text |-> <<>>]
    /\ pc' = "LoopTop"
    /\ UNCHANGED <<user_input, conv_mode, has_image, input_ids, images, outputs>>

\* the call of infer_model formatting the history before the new turn is appended
InferModelBeginNoAppend ==
    /\ pc = "Dispatch"
    /\ ~IsExit(user_input) /\ ~IsReset(user_input)
    /\ has_image' = bool(image_files)
    /\ input_ids' = preprocess_qwen(conversation_history, bool(image_files))
    /\ images' = LoadImages(image_files)
    /\ pc' = "Generating"
    /\ UNCHANGED <<conversation_history, image_files, user_input, conv_mode,
                   outputs, printed>>

\* else: infer_model(...) up to the generation call: the human turn is
\* appended, the history formatted, the images loaded
InferModelBegin ==
    /\ pc = "Dispatch"
    /\ ~IsExit(user_input) /\ ~IsReset(user_input)
    /\ conversation_history' =
          Append(conversation_history, [from |-> "human", value |-> user_input])
    /\ has_image' = bool(image_files)
    /\ input_ids' = preprocess_qwen(conversation_history', bool(image_files))
    /\ images' = LoadImages(image_files)
    /\ pc' = "Generating"
    /\ UNCHANGED <<image_files, user_input, conv_mode, outputs, printed>>

\* the generation round dropping the image list once it has been used
GenerateDropsImages(texts) ==
    /\ pc = "Generating"
    /\ \E decoded \in texts :
          LET outs == strip(decoded)
              response == TrimResponse(outs, stop_str(conv_mode))
          IN  /\ outputs' = outs
              /\ conversation_history' =
                    Append(conversation_history, [from |-> "gpt", value |-> response])
              /\ printed' = [kind |-> "assistant", text |-> response]
    /\ image_files' = Str(<<>>)
    /\ has_image' = FALSE
    /\ input_ids' = <<>>
    /\ images' = <<>>
    /\ pc' = "LoopTop"
    /\ UNCHANGED <<user_input, conv_mode>>

\* the generation round returning the response without appending it
GenerateNoAppend(texts) ==
    /\ pc = "Generating"
    /\ \E decoded \in texts :
          LET outs == strip(decoded)
              response == TrimResponse(outs, stop_str(conv_mode))
          IN  /\ outputs' = outs
              /\ printed' = [kind |-> "assistant", text |-> response]
    /\ has_image' = FALSE
    /\ input_ids' = <<>>
    /\ images' = <<>>
    /\ pc' = "LoopTop"
    /\ UNCHANGED <<conversation_history, image_files, user_input, conv_mode>>

\* the rest of infer_model and the print of __main__: the model generates and
\* decodes to one of texts, the response is trimmed, appended as the gpt turn,
\* returned and printed; the locals of the call end with it
Generate(texts) ==
    /\ pc = "Generating"
    /\ \E decoded \in texts :
          LET outs == strip(decoded)
              response == TrimResponse(outs, stop_str(conv_mode))
          IN  /\ outputs' = outs
              /\ conversation_history' =
                    Append(conversation_history, [from |-> "gpt", value |-> response])
              /\ printed' = [kind |-> "assistant", text |-> response]
    /\ has_image' = FALSE
    /\ input_ids' = <<>>
    /\ images' = <<>>
    /\ pc' = "LoopTop"
    /\ UNCHANGED <<image_files, user_input, conv_mode>>

\* an uncaught exception of image loading or of the generation call ends the
\* process inside infer_model, after the human turn was appended
Raise ==
    /\ pc = "Generating"
    /\ has_image' = FALSE
    /\ input_ids' = <<>>
    /\ images' = <<>>
    /\ pc' = "Crashed"
    /\ UNCHANGED <<conversation_history, image_files, user_input, conv_mode,
                   outputs, printed>>

\* a line that starts a generation round is read only while the history has
\* room for the round
Next ==
    \/ LoopTop
    \/ PromptImages(ImageLines)
    \/ PromptUser(IF Len(conversation_history) < 2 * MaxRounds
                  THEN UserLines ELSE ReservedLines)
    \/ Exit
    \/ Reset
    \/ InferModelBegin
    \/ Generate(ModelOutputs)
    \/ Raise

Spec == Init /\ [][Next]_vars

\* the first generation round of a session, over every decoded text built
\* from Pieces; the session ends after it
NextDecode ==
    \/ LoopTop
    \/ PromptImages({<<>>})
    \/ PromptUser(IF printed = Banner
                  THEN {EXIT_WORD, RESET_WORD, <<"h","i">>} ELSE {EXIT_WORD})
    \/ Exit
    \/ Reset
    \/ InferModelBegin
    \/ Generate(DecodedTexts)
    \/ Raise

SpecDecode == Init /\ [][NextDecode]_vars

----------------------------------------------------------------------------
(* Properties *)

history == conversation_history

HumanTurn(text) == [from |-> "human", value |-> text]

ResetStep == pc = "Dispatch" /\ lower(user_input) = RESET_WORD
ExitStep == pc = "Dispatch" /\ lower(user_input) = EXIT_WORD

\* the number of positions at which sub occurs in s
Occurrences(s, sub) ==
    Cardinality({i \in 1..(Len(s) - Len(sub) + 1) : SubSeq(s, i, i + Len(sub) - 1) = sub})

\* the number of positions of ids holding token id
CountToken(ids, id) == Cardinality({i \in 1..Len(ids) : ids[i] = id})

RECURSIVE MarkersIn(_, _)
MarkersIn(sources, i) ==
    IF i > Len(sources) THEN 0
    ELSE Occurrences(sources[i].value, IMAGE_MARK) + MarkersIn(sources, i + 1)

\* the two special tokens, as single symbols of a text
START_MARK == "<|im_start|>"
END_MARK == "<|im_end|>"

\* the text of position i of a token sequence: an image slot reads as the
\* image marker and swallows the newline token after it
TextAt(ids, i) ==
    IF ids[i] = IMAGE_TOKEN_INDEX THEN IMAGE_MARK
    ELSE IF i > 1 /\ ids[i - 1] = IMAGE_TOKEN_INDEX THEN <<>>
    ELSE <<CASE ids[i] = IM_START -> START_MARK
             [] ids[i] = IM_END -> END_MARK
             [] OTHER -> Alphabet[ids[i]]>>

RECURSIVE TextBetween(_, _, _)
TextBetween(ids, lo, hi) ==
    IF lo > hi THEN <<>>
    ELSE IF lo = hi THEN TextAt(ids, lo)
    ELSE LET mid == (lo + hi) \div 2
         IN  TextBetween(ids, lo, mid) \o TextBetween(ids, mid + 1, hi)

\* a token sequence read back as text
TextOf(ids) == TextBetween(ids, 1, Len(ids))

\* the conversation as the chat template spells it
RECURSIVE Transcript(_, _)
Transcript(sources, i) ==
    IF i > Len(sources) THEN <<>>
    ELSE (IF sources[i].from = "human" THEN ROLE_USER ELSE ROLE_ASSISTANT)
         \o NL \o sources[i].value \o <<END_MARK>> \o NL
         \o Transcript(sources, i + 1)

Preamble == <<START_MARK>> \o SYSTEM_WORD \o system_message \o <<END_MARK>> \o NL

Alternates(h) ==
    \A i \in 1..Len(h) : h[i].from = (IF i % 2 = 1 THEN "human" ELSE "gpt")

\* C1: in every generation round, whatever text the model decodes to, the
\* response printed (and returned) and every assistant turn of the history
\* is free of the configured stop string.
C1_NoStopString ==
    /\ printed.kind = "assistant" =>
          /\ ~contains(printed.text, stop_str(conv_mode))
          /\ history # <<>>
          /\ history[Len(history)] = [from |-> "gpt", value |-> printed.text]
    /\ \A i \in 1..Len(history) :
          history[i].from = "gpt" => Occurrences(history[i].value, stop_str(conv_mode)) = 0

\* a round whose decoded text held the stop string and whose response is not empty
C1_Witness ==
    /\ printed.kind = "assistant"
    /\ printed.text # <<>>
    /\ contains(outputs, stop_str(conv_mode))
    /\ contains(outputs, ROLE_ECHO)

\* C2 as stated: the first token sequence formatted after a reset is the
\* system preamble alone.
C2_OnlyPreamble ==
    (pc = "Generating" /\ printed.kind = "reset") => input_ids = system

\* C2 amended: the first token sequence formatted after a reset is the system
\* preamble followed by the encoding of the one human turn entered after the
\* reset, and the history holds that turn alone.
C2_PreambleAndNewTurn ==
    (pc = "Generating" /\ printed.kind = "reset") =>
        /\ history = <<HumanTurn(user_input)>>
        /\ SubSeq(input_ids, 1, Len(system)) = system
        /\ TextOf(SubSeq(input_ids, Len(system) + 1, Len(input_ids)))
              = ROLE_USER \o NL \o user_input \o <<END_MARK>> \o NL

\* the first generation after a reset that followed an earlier round
C2_Witness ==
    pc = "Generating" /\ printed.kind = "reset" /\ outputs # <<>>

\* C3: "exit" ends the loop: the step taken on it leaves the history as it is
\* and leads to the terminal state, from which no step is taken.
C3_ExitEndsLoop ==
    [][ /\ pc \notin {"Done", "Crashed"}
        /\ ExitStep => (pc' = "Done" /\ history' = history /\ image_files' = image_files)
      ]_vars

\* the loop ended by "Exit" with two rounds in the history
C3_Witness ==
    pc = "Done" /\ Len(history) = 4 /\ user_input = <<"E","x","i","t">>

\* C4: with images supplied, the formatted sequence holds one image-slot token
\* per image marker of the history, each where its marker stands in the text.
C4_OneSlotPerMarker ==
    (pc = "Generating" /\ has_image) =>
        /\ CountToken(input_ids, IMAGE_TOKEN_INDEX) = MarkersIn(history, 1)
        /\ TextOf(input_ids) = Preamble \o Transcript(history, 1)

\* a history with one marker in a turn and two in another, formatted with images
C4_Witness ==
    /\ pc = "Generating" /\ has_image /\ Len(history) = 3
    /\ history[1].value = IMAGE_MARK \o <<"h","i">>
    /\ history[3].value = <<"a">> \o IMAGE_MARK \o <<"b">> \o IMAGE_MARK
    /\ CountToken(input_ids, IMAGE_TOKEN_INDEX) = 3

\* C5: a single human turn formatted without images is the system preamble,
\* the header of the human role, the text of the turn and the terminator pair,
\* with no image-slot token.
C5_SingleHumanTurn ==
    (pc = "Generating" /\ ~has_image /\ Len(history) = 1) =>
        /\ input_ids =
              <<IM_START>> \o tokenizer(SYSTEM_WORD) \o tokenizer(system_message)
              \o <<IM_END>> \o tokenizer(NL)
              \o tokenizer(ROLE_USER) \o tokenizer(NL)
              \o tokenizer(history[1].value)
              \o <<IM_END>> \o tokenizer(NL)
        /\ CountToken(input_ids, IMAGE_TOKEN_INDEX) = 0

\* a single human turn holding an image marker, formatted without images
C5_Witness ==
    /\ pc = "Generating" /\ ~has_image /\ Len(history) = 1
    /\ contains(history[1].value, IMAGE_MARK)

\* C6: the image-path prompt is issued exactly when the history is empty at
\* the top of the loop, which is at start-up and after a reset; a reset clears
\* the history and the image list; the image list changes only at the prompt
\* and at a reset, so a generation uses the list entered since the last reset.
C6_ImagePrompt ==
    /\ [][ /\ pc = "LoopTop" => (pc' = "AwaitingImages" <=> history = <<>>)
           /\ pc' = "AwaitingImages" => pc = "LoopTop"
           /\ pc = "AwaitingImages" => (pc' = "AwaitingInput" /\ ~image_files'.none)
           /\ ResetStep => (history' = <<>> /\ image_files' = None /\ pc' = "LoopTop")
           /\ image_files' # image_files => (pc = "AwaitingImages" \/ ResetStep)
         ]_vars
    /\ [](pc = "AwaitingImages" => printed.kind \in {"banner", "reset"})
    /\ [](pc \in {"AwaitingInput", "Dispatch", "Generating"} => ~image_files.none)
    /\ [](pc = "Generating" => images = LoadImages(image_files))

\* the image-path prompt issued after a reset that followed a round with images
C6_Witness ==
    pc = "AwaitingImages" /\ printed.kind = "reset" /\ outputs # <<>>

\* C7 as stated: the images are supplied for the turn they were entered for
\* only, so a later turn of the session is generated without images.
C7_FirstTurnOnly ==
    (pc = "Generating" /\ Len(history) > 1) => (images = <<>> /\ ~has_image)

\* C7 amended: the image list entered at the image-path prompt stays in effect
\* until the next reset: every generation call up to then loads the images of
\* that list and formats with has_image set from it.
C7_ImagesUntilReset ==
    /\ [][ image_files' # image_files => (pc = "AwaitingImages" \/ ResetStep) ]_vars
    /\ [](pc = "Generating" =>
             /\ images = IF image_files.str = <<>> THEN <<>>
                         ELSE split(image_files.str, COMMA)
             /\ has_image = (image_files.str # <<>>))

\* the second turn of a session generated with the two images entered before
\* the first
C7_Witness ==
    pc = "Generating" /\ Len(history) = 3 /\ has_image /\ Len(images) = 2

\* C8 as stated: every line other than "exit" and "reset", lines differing
\* from them in letter case included, is appended as a human turn and starts
\* a generation.
C8_EveryOtherLine ==
    [][ (pc = "Dispatch" /\ user_input \notin {EXIT_WORD, RESET_WORD}) =>
            (history' = Append(history, HumanTurn(user_input)) /\ pc' = "Generating")
      ]_vars

\* C8 amended: every line whose lower-case form is neither "exit" nor "reset"
\* (the empty line included) is appended as a human turn and starts one
\* generation, which appends one assistant turn and returns to the User
\* prompt unless an uncaught error ends the process.
C8_EveryUnreservedLine ==
    [][ /\ (pc = "Dispatch" /\ lower(user_input) \notin {EXIT_WORD, RESET_WORD}) =>
              (history' = Append(history, HumanTurn(user_input)) /\ pc' = "Generating")
        /\ pc = "Generating" =>
              \/ /\ Len(history') = Len(history) + 1
                 /\ SubSeq(history', 1, Len(history)) = history
                 /\ history'[Len(history')].from = "gpt"
                 /\ pc' = "LoopTop"
              \/ pc' = "Crashed" /\ history' = history
        /\ (pc = "LoopTop" /\ history # <<>>) => pc' = "AwaitingInput"
      ]_vars

\* back at the User prompt after the round started by the empty line
C8_Witness ==
    /\ pc = "AwaitingInput" /\ Len(history) = 2
    /\ history[1] = HumanTurn(<<>>) /\ history[2].from = "gpt"

\* C9: every step leaves the history unchanged, extends it at its end by one
\* turn, or empties it.
C9_AppendOnly ==
    [][ \/ history' = history
        \/ /\ Len(history') = Len(history) + 1
           /\ SubSeq(history', 1, Len(history)) = history
        \/ history' = <<>>
      ]_vars

\* a turn appended to a history that a reset emptied after an earlier round
C9_Witness ==
    pc = "Generating" /\ Len(history) = 1 /\ outputs # <<>>

\* C10: at the User prompt the history has even length and alternates human,
\* assistant from a human turn on; during a generation call it has odd length,
\* alternates likewise and ends with the human turn just entered.
C10_Alternation ==
    /\ pc \in {"AwaitingInput", "Dispatch"} =>
          (Len(history) % 2 = 0 /\ Alternates(history))
    /\ pc = "Generating" =>
          /\ Len(history) % 2 = 1
          /\ Alternates(history)
          /\ history[Len(history)] = HumanTurn(user_input)

\* the User prompt after two rounds
C10_Witness ==
    pc = "AwaitingInput" /\ Len(history) = 4

====
